---- MODULE Spec2Model ----
(***************************************************************************)
(* The row-processing workflow of insta_automation_langgraph.py: the      *)
(* LangGraph state machine filter_rows -> generate_caption ->             *)
(* create_instagram_post -> create_facebook_post -> clear_row, its three  *)
(* retry loops, and the Google sheet it reads and clears, over            *)
(* successive runs of run_workflow against the same sheet.                *)
(***************************************************************************)
EXTENDS Integers, Sequences, FiniteSets, TLC

(***************************************************************************)
(* Bounds of the model.                                                    *)
(***************************************************************************)
\* data rows (below the header) of an arbitrary sheet
MaxDataRows == 3
\* data rows of a sheet of eligible rows that is processed by unreliable services
MaxRows == 2
\* data rows of a long sheet of eligible rows
MaxLongRows == 25
\* external calls (a retried call counts once) that may answer with
\* something else than success, over one behaviour
MaxFaults == 1
\* successive runs of run_workflow against the same sheet
MaxRuns == 2

(***************************************************************************)
(* Program constants.                                                      *)
(***************************************************************************)
max_retries == 5
recursion_limit == 100
media_not_ready_code == 9007
media_not_ready_subcode == 2207027

None == "<None>"
END == "END"
GraphRecursionError == "GraphRecursionError"

\* Python truth value of an Optional[str]
Truthy(s) == s # None /\ s # ""

(***************************************************************************)
(* The sheet: a sequence of rows, each a sequence of cells; sheet[1] is    *)
(* the header, sheet[k] is sheet row k.                                    *)
(***************************************************************************)
Header == <<"p", "u">>

RowShapes ==
    { <<>>,
      <<"desc1">>,
      <<"desc1", "http://a">>,
      <<"", "http://b">>,
      <<"desc3", "http://c">>,
      <<"desc3", "">> }

\* any table
AnySheets ==
    {<<>>} \cup
    UNION { { <<Header>> \o t : t \in [1..n -> RowShapes] } : n \in 0..MaxDataRows }

\* tables of eligible rows
EligibleSheets(lo, hi) ==
    { <<Header>> \o [k \in 1..n |-> IF k % 2 = 1 THEN <<"desc1", "http://a">>
                                                 ELSE <<"desc3", "http://c">>] :
        n \in lo..hi }

(***************************************************************************)
(* Responses of the external services.                                     *)
(***************************************************************************)
\* HttpError statuses of the Sheets API; 200 stands for a call that returns
SheetStatuses == {200, 429, 500, 503, 403}

\* requests.Response of the Graph API calls: status code and JSON body
GraphBodies ==
    { [id |-> "999",  code |-> 0, subcode |-> 0],
      [id |-> "1000", code |-> 0, subcode |-> 0],
      [id |-> None,   code |-> 0, subcode |-> 0],
      [id |-> None,   code |-> media_not_ready_code, subcode |-> media_not_ready_subcode] }

\* a Sheets API answer has no body the code reads
NoBody == [id |-> None, code |-> 0, subcode |-> 0]

\* 201 stands for the statuses that are not 200 and that raise_for_status()
\* lets pass
GraphResponses ==
    [status : {200, 400}, body : GraphBodies]
        \cup {[status |-> 201, body |-> [id |-> "999", code |-> 0, subcode |-> 0]]}

\* only server errors raise
raise_for_status_5xx(status) == status >= 500

\* response.raise_for_status() raises
raise_for_status(status) == status >= 400

\* what llm.invoke(prompt) gives: a text, or an exception
LlmOutcomes == {" Nice #ai ", "raise"}

\* response.content.strip()
strip(content) == IF content = " Nice #ai " THEN "Nice #ai" ELSE content

VARIABLES
    sheet,      \* the Google sheet
    state,      \* WorkflowState
    pc,         \* the node the graph runs next, or the loop a node is in
    attempt,    \* loop variable of the retry loop in progress
    media_id,   \* create_instagram_post's media container
    steps,      \* node executions of this run
    run,        \* number of the current run
    budget,     \* non-success answers the services may still give
    values,     \* the table the fetch of this run returned
    trace,      \* the external call last made: its attempts and sleeps
    calls,      \* external calls made in this run, per sheet row
    posted      \* successful publishes over all runs, per sheet row

vars == <<sheet, state, pc, attempt, media_id, steps, run, budget, values,
          trace, calls, posted>>

(***************************************************************************)
(* run_workflow's initial_state.                                           *)
(***************************************************************************)
initial_state ==
    [rows |-> <<>>, current_row_index |-> 0, caption |-> None,
     post_id |-> None, facebook_post_id |-> None, error |-> None]

NoCalls(sh) ==
    LET zero == [k \in 1..Len(sh) |-> 0]
    IN  [failed |-> 0, fetch |-> 0, caption |-> zero, container |-> zero, publish |-> zero,
         facebook |-> zero, clear |-> zero, ig_ok |-> zero, fb_ok |-> zero]

\* events of a trace: an attempt of the call with the answer it got, a sleep
Call(status, body) == [ev |-> "call", d |-> 0, status |-> status, body |-> body]
Sleep(d) == [ev |-> "sleep", d |-> d, status |-> 0, body |-> NoBody]

NoTrace == [call |-> "none", index |-> 0, events |-> <<>>, result |-> "none"]

\* the call `name` is started for the row at current_row_index
Begin(name) ==
    [call |-> name, index |-> state.current_row_index, events |-> <<>>,
     result |-> "running"]

\* the call in progress got an answer, slept as `sleeps` says and went on as
\* `result` says
Extend(t, status, body, sleeps, result) ==
    [t EXCEPT !.events = @ \o <<Call(status, body)>> \o sleeps,
              !.result = result]

\* one external answer; the first answer to a call that is not a success
\* uses up budget, the further answers to its retries do not
Answer(ok, retry) ==
    /\ ok \/ retry \/ budget > 0
    /\ budget' = IF ok \/ retry THEN budget ELSE budget - 1

(***************************************************************************)
(* filter_rows: the list comprehension over values[1:].                    *)
(***************************************************************************)
\* column B is not looked at
KeepPromptOnly(row) == Len(row) > 1 /\ row[1] # ""

Keep(row) == Len(row) > 1 /\ row[1] # "" /\ row[2] # ""

RowOf(idx, row) ==
    [row_number |-> idx + 2, prompt |-> row[1],
     image_url |-> IF Len(row) > 1 THEN row[2] ELSE ""]

\* values[1:]
SkipHeader(vals) == IF Len(vals) = 0 THEN <<>> ELSE Tail(vals)

RECURSIVE Enumerate(_, _)
\* data is 0-based in the code: data[idx] is data[idx + 1] here
Enumerate(data, idx) ==
    IF idx >= Len(data) THEN <<>>
    ELSE (IF Keep(data[idx + 1]) THEN <<RowOf(idx, data[idx + 1])>> ELSE <<>>)
         \o Enumerate(data, idx + 1)

filtered_rows(vals) == Enumerate(SkipHeader(vals), 0)

(***************************************************************************)
(* The retry loops: what one attempt does to its loop.                     *)
(*   "break"/"return": the call succeeded; "continue": next attempt;       *)
(*   "exhausted": the for loop ran out; "raise": the error is re-raised.   *)
(***************************************************************************)
\* a linear backoff
wait_time_linear(att) == att + 1

wait_time(att) == 2 ^ att

\* a loop written with range(max_retries + 1)
LoopAdvance_one_more(att) ==
    IF att + 1 < max_retries + 1 THEN "continue" ELSE "exhausted"

LoopAdvance(att) == IF att + 1 < max_retries THEN "continue" ELSE "exhausted"

fetch_retry(att, status) ==
    IF status = 200 THEN [next |-> "break", sleeps |-> <<>>]
    ELSE IF status \in {429, 500, 503}
         THEN [next |-> LoopAdvance(att), sleeps |-> <<Sleep(wait_time(att))>>]
         ELSE [next |-> "raise", sleeps |-> <<>>]

clear_retry(att, status) ==
    IF status = 200 THEN [next |-> "break", sleeps |-> <<>>]
    ELSE IF status \in {429, 500, 503}
         THEN [next |-> LoopAdvance(att), sleeps |-> <<Sleep(wait_time(att))>>]
         ELSE [next |-> "raise", sleeps |-> <<>>]

publish_retry(att, resp) ==
    IF resp.status = 200
    THEN IF Truthy(resp.body.id)
         THEN [next |-> "return", sleeps |-> <<>>]
         ELSE [next |-> LoopAdvance(att), sleeps |-> <<>>]
    ELSE IF /\ resp.body.code = media_not_ready_code
            /\ resp.body.subcode = media_not_ready_subcode
         THEN [next |-> LoopAdvance(att), sleeps |-> <<Sleep(wait_time(att))>>]
         ELSE IF raise_for_status(resp.status)
              THEN [next |-> "raise", sleeps |-> <<>>]
              ELSE [next |-> LoopAdvance(att), sleeps |-> <<>>]

(***************************************************************************)
(* The graph: edges, conditional edges and the recursion limit.            *)
(***************************************************************************)
\* the edge to create_facebook_post made unconditional
decide_after_instagram_unconditional(s) == "create_facebook_post"

decide_after_instagram(s) ==
    IF Truthy(s.post_id) /\ ~Truthy(s.error) THEN "create_facebook_post" ELSE END

\* the row is cleared whatever create_facebook_post reported
decide_after_facebook_always(s) == "clear_row"

decide_after_facebook(s) ==
    IF Truthy(s.facebook_post_id) /\ ~Truthy(s.error) THEN "clear_row" ELSE END

decide_next_step_always_loops(s) == "generate_caption"

decide_next_step(s) ==
    IF s.current_row_index >= Len(s.rows) THEN END ELSE "generate_caption"

\* a graph with a conditional edge after filter_rows
workflow_ends_on_fetch_error(node, s) ==
    CASE node = "filter_rows" -> (IF Truthy(s.error) THEN END ELSE "generate_caption")
      [] node = "generate_caption" -> "create_instagram_post"
      [] node = "create_instagram_post" -> decide_after_instagram(s)
      [] node = "create_facebook_post" -> decide_after_facebook(s)
      [] node = "clear_row" -> decide_next_step(s)

workflow(node, s) ==
    CASE node = "filter_rows" -> "generate_caption"
      [] node = "generate_caption" -> "create_instagram_post"
      [] node = "create_instagram_post" -> decide_after_instagram(s)
      [] node = "create_facebook_post" -> decide_after_facebook(s)
      [] node = "clear_row" -> decide_next_step(s)

\* graph.stream under recursion_limit: after `done` node executions the graph
\* stops at END, and fails if a node is still to run when the limit is used up
Schedule(nxt, done) ==
    IF nxt = END THEN END
    ELSE IF done >= recursion_limit THEN GraphRecursionError
    ELSE nxt

\* a node returns s to the graph
Return(node, s) ==
    /\ state' = s
    /\ steps' = steps + 1
    /\ pc' = Schedule(workflow(node, s), steps + 1)

\* the guard at the head of generate_caption, create_instagram_post and
\* create_facebook_post: "if state['error']: return state"
skip_on_error_never(s) == FALSE

skip_on_error(s) == Truthy(s.error)

\* the handler of a node that only logs the exception
record_error_logged_only(s, msg) == s

\* "except Exception as e: state['error'] = f'Error ...: {str(e)}'"
record_error(s, msg) == [s EXCEPT !.error = msg]

CurrentRow == state.rows[state.current_row_index + 1]
NoMoreRows == state.current_row_index >= Len(state.rows)

Result(next) == IF next = "continue" THEN "running" ELSE next

\* calls.failed counts the answers of this run that were not a success
Failed(ok) == IF ok THEN 0 ELSE 1

(***************************************************************************)
(* Node 1: filter_rows.                                                    *)
(***************************************************************************)
\* get_sheets_service(), then the retry loop is entered
filter_rows ==
    /\ pc = "filter_rows"
    /\ attempt' = 0
    /\ \E ok \in BOOLEAN :
        /\ Answer(ok, FALSE)
        /\ calls' = [calls EXCEPT !.failed = @ + Failed(ok)]
        /\ IF ok
           THEN /\ trace' = Begin("fetch")
                /\ pc' = "fetch"
                /\ UNCHANGED <<state, steps>>
           ELSE /\ trace' = [Begin("fetch") EXCEPT !.result = "no_service"]
                /\ Return("filter_rows",
                          record_error(state, "Error filtering rows: service"))
    /\ UNCHANGED <<sheet, media_id, run, values, posted>>

\* one pass of `for attempt in range(max_retries)` around values().get()
fetch ==
    /\ pc = "fetch"
    /\ \E status \in SheetStatuses :
        LET r == fetch_retry(attempt, status) IN
        /\ Answer(status = 200, attempt > 0)
        /\ calls' = [calls EXCEPT !.fetch = @ + 1, !.failed = @ + Failed(status = 200)]
        /\ trace' = Extend(trace, status, NoBody, r.sleeps, Result(r.next))
        /\ CASE r.next = "break" ->
                /\ values' = [fetched |-> TRUE, table |-> sheet]
                /\ Return("filter_rows",
                          [state EXCEPT !.rows = filtered_rows(sheet),
                                        !.current_row_index = 0,
                                        !.error = None])
                /\ UNCHANGED attempt
             [] r.next = "continue" ->
                /\ attempt' = attempt + 1
                /\ UNCHANGED <<state, steps, pc, values>>
             [] r.next = "exhausted" ->
                /\ Return("filter_rows",
                          record_error(state, "Error filtering rows: Max retries exceeded"))
                /\ UNCHANGED <<attempt, values>>
             [] r.next = "raise" ->
                /\ Return("filter_rows",
                          record_error(state, "Error filtering rows: HttpError"))
                /\ UNCHANGED <<attempt, values>>
    /\ UNCHANGED <<sheet, media_id, run, posted>>

(***************************************************************************)
(* Node 2: generate_caption.                                               *)
(***************************************************************************)
generate_caption ==
    /\ pc = "generate_caption"
    /\ IF skip_on_error(state)
       THEN /\ Return("generate_caption", state)
            /\ UNCHANGED <<budget, calls, trace>>
       ELSE IF NoMoreRows
       THEN /\ Return("generate_caption",
                      [state EXCEPT !.error = "No more rows to process"])
            /\ UNCHANGED <<budget, calls, trace>>
       ELSE \E out \in LlmOutcomes :
            LET ok == out # "raise" IN
            /\ Answer(ok, FALSE)
            /\ calls' = [calls EXCEPT !.caption[CurrentRow.row_number] = @ + 1,
                                      !.failed = @ + Failed(ok)]
            /\ trace' = [Begin("caption") EXCEPT !.result = IF ok THEN "return" ELSE "raise"]
            /\ IF ok
               THEN Return("generate_caption",
                           [state EXCEPT !.caption = strip(out), !.error = None])
               ELSE Return("generate_caption",
                           record_error(state, "Error generating caption"))
    /\ UNCHANGED <<sheet, attempt, media_id, run, values, posted>>

(***************************************************************************)
(* Node 3: create_instagram_post.                                          *)
(***************************************************************************)
\* the guards and step 1, the media container
create_instagram_post ==
    /\ pc = "create_instagram_post"
    /\ IF skip_on_error(state)
       THEN /\ Return("create_instagram_post", state)
            /\ UNCHANGED <<budget, calls, media_id, attempt, trace>>
       ELSE IF NoMoreRows
       THEN /\ Return("create_instagram_post",
                      [state EXCEPT !.error = "No more rows to process"])
            /\ UNCHANGED <<budget, calls, media_id, attempt, trace>>
       ELSE IF state.caption = None
       THEN \* caption[:50] raises TypeError
            /\ Return("create_instagram_post",
                      record_error(state, "Error creating Instagram post: TypeError"))
            /\ UNCHANGED <<budget, calls, media_id, attempt, trace>>
       ELSE \E resp \in GraphResponses :
            LET ok == ~raise_for_status(resp.status) /\ Truthy(resp.body.id) IN
            /\ Answer(ok, FALSE)
            /\ calls' = [calls EXCEPT !.container[CurrentRow.row_number] = @ + 1,
                                      !.failed = @ + Failed(ok)]
            /\ attempt' = 0
            /\ IF ok
               THEN /\ media_id' = resp.body.id
                    /\ trace' = Begin("publish")
                    /\ pc' = "publish"
                    /\ UNCHANGED <<state, steps>>
               ELSE /\ trace' = Extend(Begin("container"), resp.status, resp.body,
                                       <<>>, "raise")
                    /\ Return("create_instagram_post",
                              record_error(state, "Error creating Instagram post: container"))
                    /\ UNCHANGED media_id
    /\ UNCHANGED <<sheet, run, values, posted>>

\* one pass of `for attempt in range(max_retries)` around media_publish
publish ==
    /\ pc = "publish"
    /\ \E resp \in GraphResponses :
        LET r  == publish_retry(attempt, resp)
            rn == CurrentRow.row_number
            ok == r.next = "return"
        IN
        /\ Answer(ok, attempt > 0)
        /\ calls' = [calls EXCEPT !.publish[rn] = @ + 1,
                                  !.ig_ok[rn] = @ + (1 - Failed(ok)),
                                  !.failed = @ + Failed(ok)]
        /\ posted' = [posted EXCEPT !.ig[rn] = @ + (1 - Failed(ok))]
        /\ trace' = Extend(trace, resp.status, resp.body, r.sleeps, Result(r.next))
        /\ CASE r.next = "return" ->
                /\ Return("create_instagram_post",
                          [state EXCEPT !.post_id = resp.body.id, !.error = None])
                /\ UNCHANGED attempt
             [] r.next = "continue" ->
                /\ attempt' = attempt + 1
                /\ UNCHANGED <<state, steps, pc>>
             [] r.next = "exhausted" ->
                /\ Return("create_instagram_post",
                          record_error(state, "Error creating Instagram post: Failed to publish media after retries"))
                /\ UNCHANGED attempt
             [] r.next = "raise" ->
                /\ Return("create_instagram_post",
                          record_error(state, "Error creating Instagram post: HTTPError"))
                /\ UNCHANGED attempt
    /\ UNCHANGED <<sheet, media_id, run, values>>

(***************************************************************************)
(* Node 3b: create_facebook_post.                                          *)
(***************************************************************************)
create_facebook_post ==
    /\ pc = "create_facebook_post"
    /\ IF skip_on_error(state)
       THEN /\ Return("create_facebook_post", state)
            /\ UNCHANGED <<budget, calls, posted, trace>>
       ELSE IF NoMoreRows
       THEN /\ Return("create_facebook_post",
                      [state EXCEPT !.error = "No more rows to process"])
            /\ UNCHANGED <<budget, calls, posted, trace>>
       ELSE IF state.caption = None
       THEN \* caption[:50] raises TypeError
            /\ Return("create_facebook_post",
                      record_error(state, "Error creating Facebook post: TypeError"))
            /\ UNCHANGED <<budget, calls, posted, trace>>
       ELSE \E resp \in GraphResponses :
            LET rn == CurrentRow.row_number
                ok == ~raise_for_status(resp.status) /\ Truthy(resp.body.id)
            IN
            /\ Answer(ok, FALSE)
            /\ calls' = [calls EXCEPT !.facebook[rn] = @ + 1,
                                      !.fb_ok[rn] = @ + (1 - Failed(ok)),
                                      !.failed = @ + Failed(ok)]
            /\ posted' = [posted EXCEPT !.fb[rn] = @ + (1 - Failed(ok))]
            /\ trace' = Extend(Begin("facebook"), resp.status, resp.body, <<>>,
                               IF ok THEN "return" ELSE "raise")
            /\ IF ok
               THEN Return("create_facebook_post",
                           [state EXCEPT !.facebook_post_id = resp.body.id,
                                         !.error = None])
               ELSE Return("create_facebook_post",
                           record_error(state, "Error creating Facebook post"))
    /\ UNCHANGED <<sheet, attempt, media_id, run, values>>

(***************************************************************************)
(* Node 4: clear_row.                                                      *)
(***************************************************************************)
\* the per-row fields are reset but the index stays
next_row_same_index(s) ==
    [s EXCEPT !.caption = None,
              !.post_id = None,
              !.facebook_post_id = None,
              !.error = None]

\* the index is advanced and the fields of the row just processed are kept
next_row_keeps_fields(s) ==
    [s EXCEPT !.current_row_index = @ + 1,
              !.error = None]

\* always proceed to the next row after attempting the clear
next_row(s) ==
    [s EXCEPT !.current_row_index = @ + 1,
              !.caption = None,
              !.post_id = None,
              !.facebook_post_id = None,
              !.error = None]

\* the guard, get_sheets_service(), then the retry loop is entered
clear_row ==
    /\ pc = "clear_row"
    /\ IF NoMoreRows
       THEN /\ Return("clear_row", [state EXCEPT !.error = "No more rows to process"])
            /\ UNCHANGED <<budget, calls, attempt, trace>>
       ELSE /\ attempt' = 0
            /\ \E ok \in BOOLEAN :
                /\ Answer(ok, FALSE)
                /\ calls' = [calls EXCEPT !.failed = @ + Failed(ok)]
                /\ IF ok
                   THEN /\ trace' = Begin("clear")
                        /\ pc' = "clear"
                        /\ UNCHANGED <<state, steps>>
                   ELSE /\ trace' = [Begin("clear") EXCEPT !.result = "no_service"]
                        /\ Return("clear_row", next_row(state))
    /\ UNCHANGED <<sheet, media_id, run, values, posted>>

\* one pass of `for attempt in range(max_retries)` around values().clear()
clear ==
    /\ pc = "clear"
    /\ \E status \in SheetStatuses :
        LET r  == clear_retry(attempt, status)
            rn == CurrentRow.row_number
        IN
        /\ Answer(status = 200, attempt > 0)
        /\ calls' = [calls EXCEPT !.clear[rn] = @ + 1, !.failed = @ + Failed(status = 200)]
        /\ trace' = Extend(trace, status, NoBody, r.sleeps, Result(r.next))
        /\ CASE r.next = "break" ->
                /\ sheet' = [sheet EXCEPT ![rn] = <<>>]
                /\ Return("clear_row", next_row(state))
                /\ UNCHANGED attempt
             [] r.next = "continue" ->
                /\ attempt' = attempt + 1
                /\ UNCHANGED <<sheet, state, steps, pc>>
             [] r.next \in {"exhausted", "raise"} ->
                /\ Return("clear_row", next_row(state))
                /\ UNCHANGED <<sheet, attempt>>
    /\ UNCHANGED <<media_id, run, values, posted>>

(***************************************************************************)
(* run_workflow is started again, against the sheet as the last run left   *)
(* it.                                                                     *)
(***************************************************************************)
run_workflow ==
    /\ pc \in {END, GraphRecursionError}
    /\ run < MaxRuns
    /\ run' = run + 1
    /\ state' = initial_state
    /\ pc' = "filter_rows"
    /\ steps' = 0
    /\ attempt' = 0
    /\ media_id' = None
    /\ trace' = NoTrace
    /\ values' = [fetched |-> FALSE, table |-> <<>>]
    /\ calls' = NoCalls(sheet)
    /\ UNCHANGED <<sheet, budget, posted>>

Init ==
    /\ \/ sheet \in AnySheets /\ budget = 0
       \/ sheet \in EligibleSheets(MaxLongRows - 1, MaxLongRows) /\ budget = 0
       \/ sheet \in EligibleSheets(1, MaxRows) /\ budget = MaxFaults
    /\ state = initial_state
    /\ pc = "filter_rows"
    /\ attempt = 0
    /\ media_id = None
    /\ steps = 0
    /\ run = 1
    /\ values = [fetched |-> FALSE, table |-> <<>>]
    /\ trace = NoTrace
    /\ calls = NoCalls(sheet)
    /\ posted = [ig |-> [k \in 1..Len(sheet) |-> 0], fb |-> [k \in 1..Len(sheet) |-> 0]]

Next ==
    \/ filter_rows
    \/ fetch
    \/ generate_caption
    \/ create_instagram_post
    \/ publish
    \/ create_facebook_post
    \/ clear_row
    \/ clear
    \/ run_workflow

Spec == Init /\ [][Next]_vars

(***************************************************************************)
(* The node functions one at a time: a node is called with a context that *)
(* the graph may or may not hand to it, and then the graph goes on from   *)
(* there.  Used for what a node does on entry, whatever led to that entry. *)
(***************************************************************************)
Nodes ==
    {"filter_rows", "generate_caption", "create_instagram_post",
     "create_facebook_post", "clear_row"}

Errors == {None, "Error generating caption"}

Contexts(sh) ==
    [rows : {filtered_rows(sh)},
     current_row_index : 0..Len(filtered_rows(sh)),
     caption : {None, "Nice #ai"},
     post_id : {None, "999"},
     facebook_post_id : {None, "999"},
     error : Errors]

InitSteps ==
    /\ sheet \in EligibleSheets(0, MaxRows)
    /\ budget = 0
    /\ state \in Contexts(sheet)
    /\ pc \in Nodes
    /\ attempt = 0
    /\ media_id = None
    /\ steps = 0
    /\ run = 1
    /\ values = [fetched |-> TRUE, table |-> sheet]
    /\ trace = NoTrace
    /\ calls = NoCalls(sheet)
    /\ posted = [ig |-> [k \in 1..Len(sheet) |-> 0], fb |-> [k \in 1..Len(sheet) |-> 0]]

SpecSteps == InitSteps /\ [][Next]_vars

(***************************************************************************)
(* Vocabulary of the properties.                                           *)
(***************************************************************************)
Attempts(t) == SelectSeq(t.events, LAMBDA e : e.ev = "call")
Sleeps(t) == SelectSeq(t.events, LAMBDA e : e.ev = "sleep")

RunOver == pc \in {END, GraphRecursionError}

\* sheet row number of the row at 0-based index i of the fetched rows
RowNumber(i) == state.rows[i + 1].row_number

MediaNotReady(e) ==
    /\ e.body.code = media_not_ready_code
    /\ e.body.subcode = media_not_ready_subcode

\* the row the run stopped at failed at caption, Instagram or Facebook
RowFailed ==
    /\ RunOver
    /\ values.fetched
    /\ Truthy(state.error)
    /\ state.current_row_index < Len(state.rows)

(***************************************************************************)
(* C1: a failure while processing row i, i < n-1, abandons only row i,    *)
(* without clearing it, and the rows after i are still processed in the   *)
(* same run.                                                               *)
(***************************************************************************)
C1_FailureIsPerRow ==
    (RowFailed /\ state.current_row_index < Len(state.rows) - 1) =>
        /\ calls.clear[RowNumber(state.current_row_index)] = 0
        /\ \A j \in (state.current_row_index + 1)..(Len(state.rows) - 1) :
              calls.caption[RowNumber(j)] > 0

(***************************************************************************)
(* C2: in every run, a Facebook publish call for a row is made only after *)
(* the Instagram publish for that row produced a post identifier with no  *)
(* error set, and a clear call only after the Facebook publish for that   *)
(* row produced one; no row is cleared without both identifiers.          *)
(***************************************************************************)
C2_PublishBeforeClear ==
    /\ \A k \in 1..Len(sheet) :
          /\ calls.facebook[k] > 0 => calls.ig_ok[k] > 0
          /\ calls.clear[k] > 0 => calls.ig_ok[k] > 0 /\ calls.fb_ok[k] > 0
    /\ pc = "create_facebook_post" =>
          /\ Truthy(state.post_id)
          /\ ~Truthy(state.error)
    /\ pc \in {"clear_row", "clear"} =>
          /\ Truthy(state.post_id)
          /\ Truthy(state.facebook_post_id)
          /\ calls.ig_ok[CurrentRow.row_number] > 0
          /\ calls.fb_ok[CurrentRow.row_number] > 0

C2_Witness ==
    \E k \in 1..Len(sheet) :
        calls.clear[k] > 0 /\ calls.fb_ok[k] > 0 /\ calls.ig_ok[k] > 0

(***************************************************************************)
(* C3: for a row that succeeded at both publishers the clear step is      *)
(* attempted, and when it returns caption and both post ids are absent,   *)
(* error is absent and current_index is one greater than before, whatever *)
(* the clear call did; the controller then loops to generate_caption if   *)
(* current_index < length(rows) and ends otherwise.                       *)
(***************************************************************************)
C3_ClearedAndAdvanced ==
    /\ RunOver =>
          \A i \in 0..(Len(state.rows) - 1) :
              (calls.ig_ok[RowNumber(i)] > 0 /\ calls.fb_ok[RowNumber(i)] > 0)
                  => state.current_row_index > i
    /\ (trace.call = "clear" /\ trace.result # "running") =>
          /\ state.caption = None
          /\ state.post_id = None
          /\ state.facebook_post_id = None
          /\ state.error = None
          /\ state.current_row_index = trace.index + 1
          /\ pc = IF state.current_row_index < Len(state.rows)
                  THEN "generate_caption" ELSE END

(***************************************************************************)
(* C4: if none of the 5 Instagram publish attempts for a row returns a    *)
(* post identifier, the Instagram step ends with error set and post id    *)
(* absent, no Facebook publish call and no clear call is made for the row *)
(* in this run, and the controller ends.                                  *)
(***************************************************************************)
C4_PublishNeverReturnsId ==
    (/\ trace.call = "publish"
     /\ trace.result \in {"exhausted", "raise"}
     /\ Len(Attempts(trace)) = 5) =>
        /\ Truthy(state.error)
        /\ state.post_id = None
        /\ calls.facebook[RowNumber(trace.index)] = 0
        /\ calls.clear[RowNumber(trace.index)] = 0
        /\ pc = END

C4_Witness ==
    /\ trace.call = "publish"
    /\ trace.result = "exhausted"
    /\ Len(Attempts(trace)) = 5
    /\ calls.publish[RowNumber(trace.index)] = 5

C6_RunsToCompletion ==
    (values.fetched /\ calls.failed = 0) =>
        /\ \A i \in 0..(Len(state.rows) - 1) :
              /\ i < state.current_row_index =>
                    /\ calls.caption[RowNumber(i)] = 1
                    /\ calls.ig_ok[RowNumber(i)] = 1
                    /\ calls.fb_ok[RowNumber(i)] = 1
                    /\ calls.clear[RowNumber(i)] = 1
              /\ i > state.current_row_index => calls.caption[RowNumber(i)] = 0
        /\ RunOver =>
              /\ pc = END
              /\ state.current_row_index = Len(state.rows)

(***************************************************************************)
(* C7: an already-posted row is never reprocessed: over any sequence of   *)
(* successive runs against the same sheet, each sheet row is successfully *)
(* published to Instagram at most once and to Facebook at most once,      *)
(* also when its clear call fails or its Facebook publish fails after its *)
(* Instagram publish succeeded.                                           *)
(***************************************************************************)
C7_PostedOnceOverAllRuns ==
    \A k \in 1..Len(sheet) : posted.ig[k] <= 1 /\ posted.fb[k] <= 1

\* C7 as amended: within one run each sheet row is successfully published
\* to Instagram at most once and to Facebook at most once, also when its
\* clear call fails or its Facebook publish fails.
C7_PostedOncePerRun ==
    \A k \in 1..Len(sheet) : calls.ig_ok[k] <= 1 /\ calls.fb_ok[k] <= 1

\* a row posted in an earlier run, whose clear failed, is posted in this run
C7_Witness ==
    \E k \in 1..Len(sheet) :
        /\ posted.ig[k] = 2
        /\ posted.fb[k] = 2
        /\ calls.ig_ok[k] = 1
        /\ calls.fb_ok[k] = 1

(***************************************************************************)
(* C8: in each of the three retry loops, when every attempt is classified *)
(* retryable, exactly 5 attempts are made and a sleep occurs only between *)
(* two consecutive attempts: 4 sleeps, none after the fifth attempt,      *)
(* after which the step is abandoned with a max-retries failure.          *)
(***************************************************************************)
RetryableAttempt(t, e) ==
    IF t.call = "publish"
    THEN e.status # 200 /\ MediaNotReady(e)
    ELSE e.status \in {429, 500, 503}

C8_FiveAttemptsFourSleeps ==
    (/\ trace.call \in {"fetch", "clear", "publish"}
     /\ trace.result \notin {"running", "no_service"}
     /\ \A i \in 1..Len(Attempts(trace)) :
           RetryableAttempt(trace, Attempts(trace)[i])) =>
        /\ trace.result = "exhausted"
        /\ Len(Attempts(trace)) = 5
        /\ Len(Sleeps(trace)) = 4
        /\ trace.events[Len(trace.events)].ev = "call"

(***************************************************************************)
(* C9: in the Instagram publish loop, if the first k attempts, k in 0..4, *)
(* each return the media-not-ready pair with a non-200 status and attempt *)
(* k+1 returns status 200 with an identifier, then post_id is that        *)
(* identifier, error is absent, exactly k sleeps of 2^0, ..., 2^(k-1)     *)
(* occurred in that order, and no attempt follows the successful one.     *)
(***************************************************************************)
C9_RetriesThenSuccess ==
    LET a == Attempts(trace)
        k == Len(a) - 1
    IN  (/\ trace.call = "publish"
         /\ trace.result # "running"
         /\ k \in 0..4
         /\ \A i \in 1..k : a[i].status # 200 /\ MediaNotReady(a[i])
         /\ a[k + 1].status = 200
         /\ Truthy(a[k + 1].body.id)) =>
            /\ state.post_id = a[k + 1].body.id
            /\ state.error = None
            /\ Len(trace.events) = 2 * k + 1
            /\ \A i \in 1..k :
                  /\ trace.events[2 * i - 1].ev = "call"
                  /\ trace.events[2 * i] = Sleep(2 ^ (i - 1))
            /\ trace.events[2 * k + 1].ev = "call"
            /\ calls.publish[RowNumber(trace.index)] = k + 1

\* the scenario: media-not-ready on attempts 1 to 3, then {id: "999"}
C9_Witness ==
    /\ trace.call = "publish"
    /\ trace.result = "return"
    /\ Len(Attempts(trace)) = 4
    /\ \A i \in 1..3 : Attempts(trace)[i].status # 200 /\ MediaNotReady(Attempts(trace)[i])
    /\ Len(Sleeps(trace)) = 3
    /\ state.post_id = "999"

(***************************************************************************)
(* C10: for any raw table the fetch returns, the filtered row list holds, *)
(* in table order, exactly the non-header rows whose columns A and B are  *)
(* both present and non-empty, and each kept row's row_number is its raw  *)
(* index + 2; for [header, (desc1, http://a), ("", http://b),             *)
(* (desc3, http://c)] the result has row_numbers 2 and 4.                 *)
(***************************************************************************)
Eligible(row) == Len(row) >= 2 /\ row[1] # "" /\ row[2] # ""

ScenarioTable ==
    <<Header, <<"desc1", "http://a">>, <<"", "http://b">>, <<"desc3", "http://c">>>>

\* raw index r (0-based, the header at 0) is table[r + 1]; kept rows are
\* numbered raw index + offset
Filtered(table, rows, offset) ==
    /\ \A i \in 1..Len(rows) :
          LET r == rows[i].row_number - offset IN
          /\ r \in 1..(Len(table) - 1)
          /\ Eligible(table[r + 1])
          /\ rows[i].prompt = table[r + 1][1]
          /\ rows[i].image_url = table[r + 1][2]
    /\ \A i \in 1..Len(rows) : \A j \in 1..Len(rows) :
          i < j => rows[i].row_number < rows[j].row_number
    /\ \A r \in 1..(Len(table) - 1) :
          Eligible(table[r + 1]) => \E i \in 1..Len(rows) : rows[i].row_number = r + offset
    /\ table = ScenarioTable =>
          /\ Len(rows) = 2
          /\ rows[1].row_number = 2
          /\ rows[2].row_number = 4

C10_RowNumberIsRawIndexPlus2 ==
    values.fetched => Filtered(values.table, state.rows, 2)

\* C10 as amended: each kept row's row_number is its raw index + 1 (its index
\* among the non-header rows + 2), the 1-based number of its sheet row.
C10_RowNumberIsRawIndexPlus1 ==
    values.fetched => Filtered(values.table, state.rows, 1)

C10_Witness ==
    /\ values.fetched
    /\ values.table = ScenarioTable
    /\ Len(state.rows) = 2
    /\ state.rows[1].row_number = 2
    /\ state.rows[2].row_number = 4

(***************************************************************************)
(* Vocabulary of the properties on single node executions.                 *)
(***************************************************************************)
RowSteps ==
    {"generate_caption", "create_instagram_post", "create_facebook_post",
     "clear_row"}

\* the node at pc returns at once: no client is built, no call is made, and
\* the context it returns is the one it was given
ReturnsUnchanged ==
    /\ state' = state
    /\ calls' = calls
    /\ sheet' = sheet
    /\ trace' = trace
    /\ pc' \notin {"fetch", "publish", "clear"}

\* no external call is made from here on in this run
NoCallFromHere ==
    /\ calls' = calls
    /\ sheet' = sheet
    /\ pc' \notin {"fetch", "publish", "clear"}

no_more_rows_error == "No more rows to process"

\* the table this run fetched is empty or holds only the header
FetchedNoDataRows ==
    /\ calls.fetch > 0
    /\ values.fetched
    /\ Len(values.table) <= 1

NoRowCalls ==
    \A k \in 1..Len(sheet) :
        /\ calls.caption[k] = 0
        /\ calls.container[k] = 0
        /\ calls.publish[k] = 0
        /\ calls.facebook[k] = 0
        /\ calls.clear[k] = 0

\* after a row step that found no row left, the graph ends (generate_caption
\* is followed by create_instagram_post first, which then ends it)
EndsRun ==
    \/ pc' \in {END, GraphRecursionError}
    \/ pc = "generate_caption" /\ pc' = "create_instagram_post"

(***************************************************************************)
(* C12: a step of the row loop that is entered while current_row_index >= *)
(* len(rows) makes no external call and sets error to "No more rows to    *)
(* process"; the run then ends without any further external call; a run   *)
(* whose fetch returns an empty table or only a header ends with that     *)
(* error and no caption, publish or clear call.                            *)
(***************************************************************************)
C12_NoMoreRowsSetsError ==
    [][/\ (pc \in RowSteps /\ NoMoreRows) =>
              /\ state'.error = no_more_rows_error
              /\ NoCallFromHere
              /\ EndsRun
       /\ (pc \in Nodes /\ state.error = no_more_rows_error) => NoCallFromHere
       /\ (RunOver /\ FetchedNoDataRows)' =>
              (state.error = no_more_rows_error /\ NoRowCalls)'
      ]_vars

\* C12 as amended: the error is set to "No more rows to process" when it was
\* absent on entry (and by clear_row in any case); generate_caption,
\* create_instagram_post and create_facebook_post entered with an error
\* already set keep that error and the rest of the context.
C12_NoMoreRowsEndsRun ==
    [][/\ (pc \in RowSteps /\ NoMoreRows) =>
              /\ IF Truthy(state.error) /\ pc # "clear_row"
                 THEN state' = state
                 ELSE state' = [state EXCEPT !.error = no_more_rows_error]
              /\ NoCallFromHere
              /\ EndsRun
       /\ (pc \in Nodes /\ state.error = no_more_rows_error) => NoCallFromHere
       /\ (RunOver /\ FetchedNoDataRows)' =>
              (state.error = no_more_rows_error /\ NoRowCalls)'
      ]_vars

\* a run fetched a header-only table and ended after generate_caption set the
\* error and create_instagram_post returned at once
C12_Witness ==
    /\ RunOver
    /\ FetchedNoDataRows
    /\ steps = 3
    /\ state.error = no_more_rows_error
    /\ NoRowCalls

\* the processing of the row at 0-based index i was started in this run
RowStarted(i) == calls.caption[RowNumber(i)] > 0

IndexStepsByOne ==
    run' = run =>
        \/ state'.current_row_index = state.current_row_index
        \/ state'.current_row_index = state.current_row_index + 1

IndexInRange == state.current_row_index \in 0..Len(state.rows)

(***************************************************************************)
(* C13: within a run current_row_index never decreases, never exceeds     *)
(* len(rows) and changes only by +1, and it has advanced by exactly 1 for *)
(* each row whose processing is over, a completed row and an abandoned    *)
(* row alike: when the graph has ended, the index is past every row that  *)
(* was started.                                                            *)
(***************************************************************************)
C13_IndexAdvancesPerRow ==
    [][/\ IndexStepsByOne
       /\ IndexInRange'
       /\ (pc = END)' =>
             (\A i \in 0..(Len(state.rows) - 1) :
                 RowStarted(i) => state.current_row_index > i)'
      ]_vars

\* what holds of the index in every run: it moves by +1 only, stays within
\* 0..len(rows), and when the graph has ended it is past exactly the rows
\* that were published on both platforms, the ones clear_row was run for
C13_IndexCountsCompletedRows ==
    [][/\ IndexStepsByOne
       /\ IndexInRange'
       /\ (pc = END)' =>
             (\A i \in 0..(Len(state.rows) - 1) :
                 (calls.ig_ok[RowNumber(i)] > 0 /\ calls.fb_ok[RowNumber(i)] > 0)
                     <=> (state.current_row_index > i))'
      ]_vars

\* the last event of loop t is its attempt e, with no sleep after it, the loop
\* ended there by raising, and the failure is in state.error (filter_rows,
\* create_instagram_post) or was logged and reset (clear_row)
AbandonedAt(t, k) ==
    /\ k = Len(t.events)
    /\ t.result = "raise"
    /\ t.call \in {"fetch", "publish"} => Truthy(state.error)
    /\ t.call = "clear" => state.current_row_index = t.index + 1

FatalSheetAnswer(e) == e.status \notin {200, 429, 500, 503}

(***************************************************************************)
(* C14: an answer classified fatal ends the loop at that attempt, with no *)
(* sleep and no further attempt, and the step reports a failure: in the   *)
(* two sheet loops an error status outside {429, 500, 503}, in the        *)
(* Instagram publish loop any non-200 response without the (9007,         *)
(* 2207027) pair.                                                          *)
(***************************************************************************)
C14_FatalAbandonsAtOnce ==
    \A k \in 1..Len(trace.events) :
        LET e == trace.events[k] IN
        (/\ e.ev = "call"
         /\ \/ trace.call \in {"fetch", "clear"} /\ FatalSheetAnswer(e)
            \/ trace.call = "publish" /\ e.status # 200 /\ ~MediaNotReady(e))
            => AbandonedAt(trace, k)

\* what the loops do abandon at once: a fatal sheet status, and in the publish
\* loop a status that raise_for_status() raises for, without the pair
C14_RaisingStatusAbandonsAtOnce ==
    \A k \in 1..Len(trace.events) :
        LET e == trace.events[k] IN
        (/\ e.ev = "call"
         /\ \/ trace.call \in {"fetch", "clear"} /\ FatalSheetAnswer(e)
            \/ trace.call = "publish" /\ e.status >= 400 /\ ~MediaNotReady(e))
            => AbandonedAt(trace, k)

\* the number of the attempt that event k of loop t is (1 for the first)
AttemptNo(t, k) == Len(Attempts([t EXCEPT !.events = SubSeq(@, 1, k)]))

\* attempt k of loop t is followed by a sleep of 2^attempt (attempt counted
\* from 0) and then by another attempt
SleepsThenRetries(t, k) ==
    /\ k < Len(t.events)
    /\ t.events[k + 1] = Sleep(2 ^ (AttemptNo(t, k) - 1))
    /\ t.result # "running" =>
          /\ k + 2 <= Len(t.events)
          /\ t.events[k + 2].ev = "call"

(***************************************************************************)
(* C15: in the Instagram publish loop a response whose body carries code  *)
(* 9007 with subcode 2207027 is retryable whatever its HTTP status, 200   *)
(* included: on any attempt but the last it is followed by a sleep of     *)
(* 2^attempt and then by another attempt.                                  *)
(***************************************************************************)
C15_MediaNotReadyAnyStatus ==
    trace.call = "publish" =>
        \A k \in 1..Len(trace.events) :
            LET e == trace.events[k] IN
            (/\ e.ev = "call"
             /\ MediaNotReady(e)
             /\ AttemptNo(trace, k) < max_retries)
                => SleepsThenRetries(trace, k)

\* what the loop does: the pair is looked for only in a response whose status
\* is not 200
C15_MediaNotReadyNon200 ==
    trace.call = "publish" =>
        \A k \in 1..Len(trace.events) :
            LET e == trace.events[k] IN
            (/\ e.ev = "call"
             /\ MediaNotReady(e)
             /\ e.status # 200
             /\ AttemptNo(trace, k) < max_retries)
                => SleepsThenRetries(trace, k)

\* event k of loop t, an attempt after the first, comes right after a sleep
\* of 2^(j-2), j being the number of the attempt
PrecededBySleep(t, k) ==
    /\ k > 1
    /\ t.events[k - 1] = Sleep(2 ^ (AttemptNo(t, k) - 2))

SleepsIncrease(t) ==
    \A i \in 1..Len(Sleeps(t)) : \A j \in 1..Len(Sleeps(t)) :
        i < j => Sleeps(t)[i].d < Sleeps(t)[j].d

(***************************************************************************)
(* C16: in each of the three loops every attempt after the first comes    *)
(* immediately after a sleep, attempt j after a sleep of 2^(j-2), so the  *)
(* sleeps of one loop are strictly increasing and no two attempts are     *)
(* made without a sleep between them, whatever the responses are (a       *)
(* status 200 body without an identifier included).                        *)
(***************************************************************************)
C16_RetryOnlyAfterSleep ==
    /\ \A k \in 1..Len(trace.events) :
          (trace.events[k].ev = "call" /\ AttemptNo(trace, k) >= 2)
              => PrecededBySleep(trace, k)
    /\ SleepsIncrease(trace)

\* what holds in every run: the two sheet loops retry only after a sleep, and
\* the sleeps of any loop, the publish loop included, are strictly increasing
C16_SheetRetryOnlyAfterSleep ==
    /\ trace.call \in {"fetch", "clear"} =>
          \A k \in 1..Len(trace.events) :
              (trace.events[k].ev = "call" /\ AttemptNo(trace, k) >= 2)
                  => PrecededBySleep(trace, k)
    /\ SleepsIncrease(trace)

\* the fetch of this run failed: the client could not be built, a fatal
\* status was answered, or the five attempts were used up
FetchFailed ==
    /\ trace.call = "fetch"
    /\ trace.result \in {"no_service", "raise", "exhausted"}

FetchErrors ==
    {"Error filtering rows: service", "Error filtering rows: HttpError",
     "Error filtering rows: Max retries exceeded"}

(***************************************************************************)
(* C17: if the sheet fetch fails (fatal status, retries exhausted, or the *)
(* client cannot be built) an error is recorded, the graph still goes     *)
(* filter_rows -> generate_caption -> create_instagram_post, both of      *)
(* which return at once, and the run then ends with no text-generation,   *)
(* publish or clear call.                                                  *)
(***************************************************************************)
C17_FetchFailureEndsRun ==
    FetchFailed =>
        /\ state.error \in FetchErrors
        /\ state = [initial_state EXCEPT !.error = state.error]
        /\ ~values.fetched
        /\ NoRowCalls
        /\ \/ pc = "generate_caption" /\ steps = 1
           \/ pc = "create_instagram_post" /\ steps = 2
           \/ pc = END /\ steps = 3

\* the five fetch attempts were used up and the run has ended after the two
\* nodes that returned at once
C17_Witness ==
    /\ FetchFailed
    /\ trace.result = "exhausted"
    /\ Len(Attempts(trace)) = max_retries
    /\ pc = END
    /\ steps = 3
    /\ NoRowCalls

\* an external call of the node at pc is answered in this step with something
\* other than a success
OutcomeIsFailure == calls'.failed > calls.failed

\* the loop of the node goes on to its next attempt
LoopGoesOn ==
    /\ pc \in {"fetch", "publish", "clear"}
    /\ pc' = pc
    /\ steps' = steps
    /\ state' = state

\* the node returns to the graph, which goes on with a node or ends
ReturnsToGraph ==
    /\ steps' = steps + 1
    /\ pc' \in Nodes \cup {END}

(***************************************************************************)
(* C18: for every step and every outcome of its external calls (error     *)
(* status, missing identifier, exception of the text-generation service,  *)
(* retries exhausted) the step returns to the graph with the failure      *)
(* recorded in state.error (clear_row: logged, then reset); no step       *)
(* outcome leaves the run aborted by an exception that escaped the graph. *)
(***************************************************************************)
C18_StepsCatchTheirFailures ==
    [][/\ (OutcomeIsFailure /\ pc \notin {"clear_row", "clear"}) =>
              \/ LoopGoesOn
              \/ /\ ReturnsToGraph
                 /\ Truthy(state'.error)
                 /\ state' = [state EXCEPT !.error = state'.error]
       /\ (OutcomeIsFailure /\ pc \in {"clear_row", "clear"}) =>
              \/ LoopGoesOn
              \/ /\ ReturnsToGraph
                 /\ trace'.result \in {"no_service", "raise", "exhausted"}
                 /\ state'.error = None
                 /\ state'.current_row_index = state.current_row_index + 1
      ]_vars

\* the text-generation service raised for the first row: the run has ended
\* with the error recorded and no caption
C18_Witness ==
    /\ pc = END
    /\ steps = 3
    /\ calls.failed = 1
    /\ state.error = "Error generating caption"
    /\ state.caption = None
    /\ calls.caption[RowNumber(0)] = 1

CallBounds ==
    /\ calls.fetch <= max_retries
    /\ \A k \in 1..Len(sheet) :
          /\ calls.caption[k] <= 1
          /\ calls.container[k] <= 1
          /\ calls.publish[k] <= max_retries
          /\ calls.facebook[k] <= 1
          /\ calls.clear[k] <= max_retries

\* filter_rows is the first node execution of the run and no other one, and no
\* call for a row is made before it has returned
FilterRowsFirstAndOnce ==
    /\ pc \in {"filter_rows", "fetch"} <=> steps = 0
    /\ steps = 0 => NoRowCalls

(***************************************************************************)
(* C19: per run, filter_rows runs exactly once, before any row step, with *)
(* at most 5 fetch attempts; for each row the text-generation service is  *)
(* called at most once, the container creation at most once, the          *)
(* Instagram publish at most 5 times, the Facebook publish at most once   *)
(* and the clear at most 5 times; no step is executed again for a row     *)
(* that failed: once a failure is recorded no further call is made in the *)
(* run.                                                                    *)
(***************************************************************************)
C19_AttemptBounds ==
    [][/\ CallBounds'
       /\ FilterRowsFirstAndOnce'
       /\ (Truthy(state.error) /\ run' = run) => calls' = calls
      ]_vars

\* a row whose publish loop used all five attempts after one caption and one
\* container call, and the run ended there
C19_Witness ==
    \E k \in 1..Len(sheet) :
        /\ calls.publish[k] = max_retries
        /\ calls.caption[k] = 1
        /\ calls.container[k] = 1
        /\ calls.facebook[k] = 0
        /\ RunOver

\* the per-row counters of sheet row k are the same before and after the step
SameCallsFor(k) ==
    /\ calls'.caption[k] = calls.caption[k]
    /\ calls'.container[k] = calls.container[k]
    /\ calls'.publish[k] = calls.publish[k]
    /\ calls'.facebook[k] = calls.facebook[k]
    /\ calls'.clear[k] = calls.clear[k]

\* a container, publish or Facebook call is made in this step
PublishCallMade ==
    \E k \in 1..Len(sheet) :
        \/ calls'.container[k] # calls.container[k]
        \/ calls'.publish[k] # calls.publish[k]
        \/ calls'.facebook[k] # calls.facebook[k]

\* the step belongs to the iteration of a row: from generate_caption to the
\* end of the clear loop
InRowIteration ==
    /\ pc \in RowSteps \cup {"publish", "clear"}
    /\ ~NoMoreRows
    /\ run' = run

(***************************************************************************)
(* C20: from generate_caption to the end of clear_row's clear call        *)
(* neither rows nor current_row_index changes, so every call of the       *)
(* iteration is made for rows[current_row_index] and the sheet row that   *)
(* is cleared is the one holding its prompt and image URL; whenever a     *)
(* publish call is made the caption is present and was generated for that *)
(* row in this run, and no caption or post id is left over from the row   *)
(* before.                                                                 *)
(***************************************************************************)
C20_RowIdentity ==
    [][InRowIteration =>
          LET rn == CurrentRow.row_number IN
          /\ state'.rows = state.rows
          /\ \/ state'.current_row_index = state.current_row_index
             \/ /\ pc \in {"clear_row", "clear"}
                /\ steps' = steps + 1
                /\ state'.current_row_index = state.current_row_index + 1
          /\ \A k \in 1..Len(sheet) : k # rn => SameCallsFor(k) /\ sheet'[k] = sheet[k]
          /\ sheet' # sheet =>
                /\ pc = "clear"
                /\ sheet[rn] = <<CurrentRow.prompt, CurrentRow.image_url>>
                /\ sheet' = [sheet EXCEPT ![rn] = <<>>]
          /\ PublishCallMade =>
                /\ Truthy(state.caption)
                /\ calls.caption[rn] = 1
          /\ calls'.facebook[rn] # calls.facebook[rn] =>
                /\ Truthy(state.post_id)
                /\ calls.ig_ok[rn] = 1
          /\ pc' = "generate_caption" =>
                /\ state'.caption = None
                /\ state'.post_id = None
                /\ state'.facebook_post_id = None
      ]_vars

\* the second row of the run is being published with its own caption, after
\* the first row was published and cleared
C20_Witness ==
    /\ state.current_row_index = 1
    /\ Len(state.rows) >= 2
    /\ pc = "create_facebook_post"
    /\ Truthy(state.caption)
    /\ Truthy(state.post_id)
    /\ calls.caption[RowNumber(1)] = 1
    /\ calls.publish[RowNumber(1)] >= 1
    /\ calls.clear[RowNumber(0)] >= 1
    /\ sheet[RowNumber(0)] = <<>>

====
